---------------------------- MODULE Spec2Model ----------------------------
(***************************************************************************)
(* A model of merge.py, the "/merge" promotion action: one invocation of   *)
(* main() is a sequential process whose steps are the local decisions and  *)
(* the calls to the remote repository service, interleaved with external   *)
(* actors that change the same remote objects.                             *)
(*                                                                         *)
(* Text (comments, branch names, commit identifiers, application           *)
(* identifiers) is a sequence of one-character strings, so that the        *)
(* regular expressions and the prefix tests of the source are computed     *)
(* character by character.  An optional value (Python's None or a value)   *)
(* is the empty sequence or a one-element sequence.                        *)
(***************************************************************************)
EXTENDS Integers, Sequences, FiniteSets, TLC

(***************************************************************************)
(* Optional values.                                                        *)
(***************************************************************************)
None == << >>

Some(x) == << x >>

IsSome(o) == o # << >>

Val(o) == o[1]

(***************************************************************************)
(* Text helpers.                                                           *)
(***************************************************************************)
Rep(c, n) == [k \in 1..n |-> c]

StartsWith(s, p) == Len(s) >= Len(p) /\ SubSeq(s, 1, Len(p)) = p

\* s[p..] begins with the literal lit
LitAt(s, p, lit) ==
    /\ p + Len(lit) - 1 <= Len(s)
    /\ SubSeq(s, p, p + Len(lit) - 1) = lit

Digit == {"0", "1", "2", "3", "4", "5", "6", "7", "8", "9"}

Lower == {"a", "b", "c", "d", "e", "f", "g", "h", "i", "j", "k", "l", "m",
          "n", "o", "p", "q", "r", "s", "t", "u", "v", "w", "x", "y", "z"}

Upper == {"A", "B", "C", "D", "E", "F", "G", "H", "I", "J", "K", "L", "M",
          "N", "O", "P", "Q", "R", "S", "T", "U", "V", "W", "X", "Y", "Z"}

\* [a-fA-F0-9]
HexChar == Digit \cup {"a", "b", "c", "d", "e", "f", "A", "B", "C", "D", "E", "F"}

\* [\w.-]
BranchChar == Digit \cup Lower \cup Upper \cup {"_", ".", "-"}

\* [a-zA-Z0-9-]
HandleChar == Digit \cup Lower \cup Upper \cup {"-"}

Min(a, b) == IF a <= b THEN a ELSE b

Max(S) == CHOOSE x \in S : \A y \in S : y <= x

\* the length of the longest run of characters of class cls starting at s[p]
RunLen(s, p, cls) ==
    Max({n \in 0..(IF p > Len(s) THEN 0 ELSE Len(s) - p + 1) :
            \A k \in p..(p + n - 1) : s[k] \in cls})

(***************************************************************************)
(* Literals of the source.                                                 *)
(***************************************************************************)
MergePrefix == << "/", "m", "e", "r", "g", "e" >>

HeadKey == << " ", "h", "e", "a", "d", "=" >>

Master == << "m", "a", "s", "t", "e", "r" >>

Beta == << "b", "e", "t", "a" >>

BranchPrefix == << "b", "r", "a", "n", "c", "h", "/" >>

ShaLen == 40

MaxHandleLen == 39

(***************************************************************************)
(* parse_merge_command.                                                    *)
(*                                                                         *)
(* command_pattern is "/merge", an optional ":" and qualifier of one or    *)
(* more characters of [\w.-], " head=", 40 characters of [a-fA-F0-9], and  *)
(* any text without a newline up to the end, anchored at both ends.        *)
(***************************************************************************)

\* the last group and "$" on the tail t: "." matches no newline, "$" matches at
\* the end of the text or before a newline that ends it.  The group, or None.
TailGroup(t) ==
    LET n == RunLen(t, 1, {t[k] : k \in 1..Len(t)} \ {"\n"})
    IN  IF n = Len(t) THEN Some(t)
        ELSE IF n = Len(t) - 1 THEN Some(SubSeq(t, 1, n))
        ELSE None

\* " head=", the 40 hex characters and the tail matched at s[p..]:
\* << sha, rest >> or None
HeadAt(s, p) ==
    IF /\ LitAt(s, p, HeadKey)
       /\ RunLen(s, p + Len(HeadKey), HexChar) >= ShaLen
    THEN LET q == p + Len(HeadKey)
             t == TailGroup(SubSeq(s, q + ShaLen, Len(s)))
         IN  IF IsSome(t) THEN Some(<< SubSeq(s, q, q + ShaLen - 1), Val(t) >>)
             ELSE None
    ELSE None

\* the whole pattern: << group 1 (optional), group 2, group 3 >> or None.  The
\* optional group is tried first, longest qualifier first, then skipped.
command_pattern_search(s) ==
    LET p0 == Len(MergePrefix) + 1
        run == IF LitAt(s, p0, << ":" >>) THEN RunLen(s, p0 + 1, BranchChar) ELSE 0
        ks == {k \in 1..run : IsSome(HeadAt(s, p0 + 1 + k))}
    IN  IF ~StartsWith(s, MergePrefix) THEN None
        ELSE IF ks # {}
        THEN LET k == Max(ks)
                 h == Val(HeadAt(s, p0 + 1 + k))
             IN  Some(<< Some(SubSeq(s, p0 + 1, p0 + k)), h[1], h[2] >>)
        ELSE IF IsSome(HeadAt(s, p0))
        THEN LET h == Val(HeadAt(s, p0)) IN Some(<< None, h[1], h[2] >>)
        ELSE None

\* re.findall(r"@[a-zA-Z0-9-]{1,39}", rest) with the "@" dropped from each match
RECURSIVE FindHandles(_, _)
FindHandles(s, p) ==
    IF p > Len(s) THEN << >>
    ELSE LET n == Min(RunLen(s, p + 1, HandleChar), MaxHandleLen)
         IN  IF s[p] = "@" /\ n >= 1
             THEN << SubSeq(s, p + 1, p + n) >> \o FindHandles(s, p + n + 1)
             ELSE FindHandles(s, p + 1)

\* TargetBranch with "beta" forgotten among the names kept as they are
TargetBranch_master_only(g) ==
    LET branch_match == IF IsSome(g) THEN Val(g) ELSE Master
    IN  IF branch_match \in {Master} THEN branch_match
        ELSE BranchPrefix \o branch_match

\* the branch name for qualifier group g (optional)
TargetBranch(g) ==
    LET branch_match == IF IsSome(g) THEN Val(g) ELSE Master
    IN  IF branch_match \in {Master, Beta} THEN branch_match
        ELSE BranchPrefix \o branch_match

\* (target_repo_default_branch, pr_head_sha, additional_colbs), each optional
parse_merge_command(github_comment) ==
    LET matched == command_pattern_search(github_comment)
    IN  IF ~StartsWith(github_comment, MergePrefix) THEN << None, None, None >>
        ELSE IF ~IsSome(matched) THEN << None, None, None >>
        ELSE << Some(TargetBranch(Val(matched)[1])),
                Some(Val(matched)[2]),
                Some(FindHandles(Val(matched)[3], 1)) >>

(***************************************************************************)
(* detect_appid.  A file of the clone is its name, whether its text can be *)
(* loaded, and the values its manifest has for 'app-id' and for 'id', each *)
(* None when the key is missing.                                           *)
(***************************************************************************)
ExtYml == << ".", "y", "m", "l" >>

ExtYaml == << ".", "y", "a", "m", "l" >>

ExtJson == << ".", "j", "s", "o", "n" >>

EndsWith(s, p) == Len(s) >= Len(p) /\ SubSeq(s, Len(s) - Len(p) + 1, Len(s)) = p

\* glob "*.ext": the name ends with the extension and is not a dot file
GlobMatch(name, ext) == EndsWith(name, ext) /\ name[1] # "."

\* os.path.splitext(name)[0]: the name up to its last dot (a leading dot is
\* part of the base)
SplitExtBase(name) ==
    LET dots == {k \in 2..Len(name) : name[k] = "."}
    IN  IF dots = {} THEN name ELSE SubSeq(name, 1, Max(dots) - 1)

\* the position of a file in the order of the extensions of the comprehension
ExtRank(name) ==
    IF GlobMatch(name, ExtYml) THEN 1
    ELSE IF GlobMatch(name, ExtYaml) THEN 2
    ELSE IF GlobMatch(name, ExtJson) THEN 3
    ELSE 0

\* the lists `files` can be for a directory: its manifests, by extension in
\* the order yml, yaml, json, in any order within one extension
Listings(dir) ==
    LET cand == {f \in dir : ExtRank(f.name) > 0}
        n == Cardinality(cand)
    IN  {s \in [1..n -> cand] :
            /\ \A a, b \in 1..n : a # b => s[a] # s[b]
            /\ \A a, b \in 1..n : a < b => ExtRank(s[a].name) <= ExtRank(s[b].name)}

\* a value Python takes as true: present and not the empty string
Truthy(o) == IsSome(o) /\ Val(o) # << >>

\* _read_flatpak_manifest sends every name that ends with neither .yaml nor
\* .yml to the JSON reader
ReadAsJson(name) == ~(EndsWith(name, ExtYaml) \/ EndsWith(name, ExtYml))

\* _read_json_flatpak_manifest goes on to Json.to_string(parser.get_root())
\* after a load that failed, with no root to convert; the YAML reader keeps
\* the empty manifest after a YAMLError
read_json_without_root(f) == ~f.parses /\ ReadAsJson(f.name)

\* manifest.get("app-id") or manifest.get("id"), None for a file that gave
\* no manifest
get_id_from_flatpak_manifest(f) ==
    IF ~f.parses THEN None
    ELSE IF Truthy(f.app_id) THEN f.app_id
    ELSE f.id

\* detect_appid without the comparison with the base name: the first file
\* that declares an identifier
RECURSIVE detect_appid_any_identifier(_)
detect_appid_any_identifier(files) ==
    IF files = << >> THEN << None, None >>
    ELSE LET f == Head(files)
             appid == get_id_from_flatpak_manifest(f)
         IN  IF Truthy(appid) THEN << Some(f.name), appid >>
             ELSE detect_appid_any_identifier(Tail(files))

\* (manifest_file, appid) of the first file that names itself, each optional
RECURSIVE detect_appid(_)
detect_appid(files) ==
    IF files = << >> THEN << None, None >>
    ELSE LET f == Head(files)
             appid == get_id_from_flatpak_manifest(f)
         IN  IF Truthy(appid) /\ SplitExtBase(f.name) = Val(appid)
             THEN << Some(f.name), appid >>
             ELSE detect_appid(Tail(files))

\* the scan reads a JSON file that gave no root before it returns
RECURSIVE detect_appid_reads_no_root(_)
detect_appid_reads_no_root(files) ==
    IF files = << >> THEN FALSE
    ELSE LET f == Head(files)
             appid == get_id_from_flatpak_manifest(f)
         IN  IF read_json_without_root(f) THEN TRUE
             ELSE IF Truthy(appid) /\ SplitExtBase(f.name) = Val(appid) THEN FALSE
             ELSE detect_appid_reads_no_root(Tail(files))

(***************************************************************************)
(* The small decisions of the workflow, as the source computes them.       *)
(***************************************************************************)
\* is_valid_event without the test that the issue is a review request
is_valid_event_any_issue(event) ==
    /\ ~event.empty
    /\ event.action = "created"

is_valid_event(event) ==
    /\ ~event.empty
    /\ event.action = "created"
    /\ event.pull_request

\* is_authorized_commenter with the test of the two answers negated once more
is_authorized_commenter_negated(admin, reviewer) == ~(admin \/ reviewer)

\* has_in_members of the admins team, then of the reviewers team
is_authorized_commenter(admin, reviewer) == admin \/ reviewer

\* clone_pr_fork comparing only the fetched head with the approved SHA
clone_pr_fork_live_head_only(state, clone_head_sha, live_head_sha, approved_head_sha) ==
    /\ state = "open"
    /\ ~(live_head_sha # approved_head_sha)

\* clone_pr_fork with the check of the state alone
clone_pr_fork_state_only(state, clone_head_sha, live_head_sha, approved_head_sha) ==
    state = "open"

\* the three checks of clone_pr_fork: TRUE when the clone is returned
clone_pr_fork(state, clone_head_sha, live_head_sha, approved_head_sha) ==
    /\ state = "open"
    /\ ~(clone_head_sha # approved_head_sha \/ live_head_sha # approved_head_sha)

\* finalize_new_flathub_repo without its last check
remote_verified_no_protection(remote_head_sha, protected, approved_pr_sha) ==
    remote_head_sha = approved_pr_sha

\* finalize_new_flathub_repo without the comparison of the heads
remote_verified_no_sha(remote_head_sha, protected, approved_pr_sha) ==
    protected = TRUE

\* the two checks that end finalize_new_flathub_repo
remote_verified(remote_head_sha, protected, approved_pr_sha) ==
    /\ remote_head_sha = approved_pr_sha
    /\ protected = TRUE

Count(s, c) == Cardinality({k \in 1..Len(s) : s[k] = c})

KdePrefix == << "o", "r", "g", ".", "k", "d", "e", "." >>

GnomePrefix == << "o", "r", "g", ".", "g", "n", "o", "m", "e", "." >>

GnomeDots == 2

\* teams_to_add without the count of the dots
teams_to_add_any_gnome(name) ==
    << "trusted-maintainers" >> \o
        (IF StartsWith(name, KdePrefix) THEN << "KDE" >>
         ELSE IF StartsWith(name, GnomePrefix) THEN << "GNOME" >>
         ELSE << >>)

teams_to_add(name) ==
    << "trusted-maintainers" >> \o
        (IF StartsWith(name, KdePrefix) THEN << "KDE" >>
         ELSE IF StartsWith(name, GnomePrefix) /\ Count(name, ".") = GnomeDots
         THEN << "GNOME" >>
         ELSE << >>)

\* the patterns protected, in the order of the loop
ProtectedPatterns ==
    << Master,
       << "m", "a", "i", "n" >>,
       << "s", "t", "a", "b", "l", "e" >>,
       BranchPrefix \o << "*" >>,
       Beta,
       Beta \o << "/", "*" >> >>

(***************************************************************************)
(* The inputs the model draws from.                                        *)
(***************************************************************************)
ShaA == Rep("a", ShaLen)

ShaB == Rep("b", ShaLen)

Shas == {ShaA, ShaB}

Alice == << "a", "l" >>

Bob == << "b", "o" >>

PrAuthor == << "d", "e", "v" >>

Custom == << "c", "u" >>

Cmd(qualifier, sha, rest) == MergePrefix \o qualifier \o HeadKey \o sha \o rest

\* the comments an event of a run carries: two well-formed commands, and
\* texts that are not the documented command
Comments ==
    { Cmd(<< >>, ShaA, << >>),
      Cmd(<< ":" >> \o Custom, ShaA, << " ", "@" >> \o Alice \o << " ", "@" >> \o Bob),
      Cmd(<< >>, Rep("a", ShaLen + 1), << >>),
      Cmd(<< >>, Rep("a", ShaLen - 1), << >>),
      << "h", "i" >> }

\* the comments the parser is applied to on its own: every combination of a
\* start, a qualifier, a key, a head value and a rest
ParserComments ==
    { start \o qualifier \o key \o sha \o rest :
        start \in {MergePrefix, << " " >> \o MergePrefix, << "/", "m" >>},
        qualifier \in {<< >>, << ":" >>, << ":" >> \o Master, << ":" >> \o Beta,
                       << ":" >> \o Custom, << ":", "a", "/", "b" >>,
                       << ":", "v", "-", "1", ".", "x", "_" >>},
        key \in {HeadKey, << " ", "h", "e", "a", "d", ":" >>},
        sha \in {ShaA, ShaB, Rep("A", ShaLen - 1) \o << "9" >>,
                 Rep("a", ShaLen - 1), Rep("a", ShaLen + 1), << >>,
                 Rep("a", ShaLen - 1) \o << "g" >>,
                 << "g" >> \o Rep("a", ShaLen - 1),
                 Rep("a", ShaLen + 1) \o << "g" >>},
        rest \in {<< >>, << " ", "@" >> \o Alice \o << " ", "@" >> \o Bob,
                  << "\n" >>, << "\n", "x" >>} }

EmptyEvent == [empty |-> TRUE, action |-> "", pull_request |-> FALSE, body |-> << >>]

Events ==
    {EmptyEvent} \cup
    [empty : {FALSE}, action : {"created", "edited"}, pull_request : BOOLEAN,
     body : Comments]

IdApp == << "i", "o", ".", "x", ".", "A" >>

IdKde == KdePrefix \o << "K" >>

AppIds == {IdApp, IdKde}

Manifest(name, app_id, id) ==
    [name |-> name, parses |-> TRUE, app_id |-> app_id, id |-> id]

\* a manifest that declares appid (or nothing) under 'app-id'
File(name, appid) == Manifest(name, appid, None)

\* a file whose text is no YAML, or no JSON
Unparsable(name) == [name |-> name, parses |-> FALSE, app_id |-> None, id |-> None]

\* the directories a fork can hold
Dirs ==
    { {File(<< "R", ".", "m", "d" >>, None)},
      {File(IdApp \o ExtYml, Some(IdApp))},
      {File(<< "x" >> \o ExtJson, Some(IdKde)), File(IdKde \o ExtJson, Some(IdKde))},
      {Unparsable(<< "x" >> \o ExtJson)} }

\* the names and the contents of the files the resolver is tried on
DetectNames ==
    { IdApp \o ExtYml, IdApp \o ExtJson, IdKde \o ExtJson, IdKde \o ExtYaml,
      << "x" >> \o ExtJson, << "R", ".", "m", "d" >> }

DetectFiles ==
    UNION { { File(n, Some(IdApp)), File(n, Some(IdKde)), File(n, None),
              Manifest(n, None, Some(IdApp)), Manifest(n, Some(IdKde), Some(IdApp)),
              Unparsable(n) } : n \in DetectNames }

\* directories of at most two files
DetectDirs ==
    { {f, g} : << f, g >> \in { p \in DetectFiles \X DetectFiles :
                                  p[1].name = p[2].name => p[1] = p[2] } }

MaxExternal == 1

MaxPreexisting == 1

(***************************************************************************)
(* State.                                                                  *)
(*   loc        the local variables of main(), per invocation              *)
(*   pr         the review request on the remote service                   *)
(*   fork_head  the head commit of the request's branch in the fork        *)
(*   org_repos  the repositories of the organization, by name              *)
(*   ext_count  the number of changes external actors have made            *)
(***************************************************************************)
VARIABLES loc, pr, fork_head, org_repos, ext_count

vars == << loc, pr, fork_head, org_repos, ext_count >>

Invocations == DOMAIN loc

InitLocals ==
    [ pc |-> "token",
      github_token |-> FALSE,
      github_event |-> EmptyEvent,
      target_repo_default_branch |-> None,
      approved_pr_head_sha |-> None,
      additional_colbs |-> None,
      pr |-> None,
      admin |-> FALSE,
      reviewer |-> FALSE,
      tmpdir |-> FALSE,
      clone_head_sha |-> None,
      pr_tmp |-> None,
      files |-> << >>,
      manifest_file |-> None,
      appid |-> None,
      found_existing |-> FALSE,
      get_repo_error |-> FALSE,
      created_repo_obj |-> None,
      remote_branch_obj |-> None,
      issue_obj |-> None,
      protect_calls |-> 0,
      exit_code |-> None,
      fault |-> FALSE,
      failed |-> FALSE,
      steps |-> << >>,
      calls |-> {} ]

AbsentRepo ==
    [ exists |-> FALSE, homepage |-> FALSE, heads |-> {}, rules |-> {},
      bot |-> FALSE, collaborators |-> {}, teams |-> {} ]

\* a repository as create_repo leaves it
NewRepo == [AbsentRepo EXCEPT !.exists = TRUE, !.bot = TRUE]

InitRemote ==
    /\ pr \in [ state : {"open", "closed"}, head_sha : Shas, labels : {{}},
                comments : {0}, locked : BOOLEAN ]
    /\ fork_head \in Shas
    /\ \E pre \in SUBSET AppIds :
          /\ Cardinality(pre) <= MaxPreexisting
          /\ org_repos = [n \in AppIds |-> IF n \in pre THEN NewRepo ELSE AbsentRepo]
    /\ ext_count = 0

Init ==
    /\ loc = [i \in {1} |-> InitLocals]
    /\ InitRemote

(***************************************************************************)
(* The remote service's answers.                                           *)
(***************************************************************************)
\* the head of a branch of a repository, optional
BranchHead(repo, branch) ==
    IF \E h \in repo.heads : h[1] = branch
    THEN Some((CHOOSE h \in repo.heads : h[1] = branch)[2])
    ELSE None

\* a protection pattern covers a branch: the pattern itself, or a pattern
\* "prefix/*" and a branch "prefix/x" with no further slash
PatternMatches(pattern, branch) ==
    IF pattern[Len(pattern)] = "*"
    THEN LET prefix == SubSeq(pattern, 1, Len(pattern) - 1)
         IN  /\ StartsWith(branch, prefix)
             /\ Len(branch) > Len(prefix)
             /\ \A k \in (Len(prefix) + 1)..Len(branch) : branch[k] # "/"
    ELSE pattern = branch

BranchProtected(repo, branch) == \E p \in repo.rules : PatternMatches(p, branch)

(***************************************************************************)
(* How an invocation ends.  The working directory is the body of a with    *)
(* statement: it is removed on every way out of it.                        *)
(***************************************************************************)
\* every return of main() returning 0
Exit_zero(l, code) == [l EXCEPT !.pc = "done", !.exit_code = Some(0), !.tmpdir = FALSE]

Exit(l, code) == [l EXCEPT !.pc = "done", !.exit_code = Some(code), !.tmpdir = FALSE]

\* an exception that leaves main() past the with statement, its directory kept
Fault_past_with(l) ==
    [l EXCEPT !.pc = "done", !.exit_code = Some(1), !.fault = TRUE, !.failed = TRUE]

\* an exception nothing catches leaves main(): the interpreter exits with 1
Fault(l) == [Exit(l, 1) EXCEPT !.fault = TRUE, !.failed = TRUE]

\* a failure the called function reports and main() returns 1 on
Fail(l) == [Exit(l, 1) EXCEPT !.failed = TRUE]

At(l, step, ops) == [l EXCEPT !.steps = Append(@, step), !.calls = @ \cup ops]

Goto(l, label) == [l EXCEPT !.pc = label]

(***************************************************************************)
(* main(), step by step.  A step that calls the remote service or the      *)
(* local git tool draws the call's outcome: ok, or not.                    *)
(***************************************************************************)
Set(i, l) == loc' = [loc EXCEPT ![i] = l]

\* INPUT_TOKEN read and tested
CheckToken(i) ==
    /\ loc[i].pc = "token"
    /\ \E token \in BOOLEAN :
          LET l == [At(loc[i], "token", {}) EXCEPT !.github_token = token]
          IN  Set(i, IF ~token THEN Exit(l, 1) ELSE Goto(l, "event"))
    /\ UNCHANGED << pr, fork_head, org_repos, ext_count >>

\* load_github_event and is_valid_event
ValidateEvent(i) ==
    /\ loc[i].pc = "event"
    /\ \E event \in Events :
          LET l == [At(loc[i], "event", {}) EXCEPT !.github_event = event]
          IN  Set(i, IF ~is_valid_event(event) THEN Exit(l, 1) ELSE Goto(l, "parse"))
    /\ UNCHANGED << pr, fork_head, org_repos, ext_count >>

ParseCommand(i) ==
    /\ loc[i].pc = "parse"
    /\ LET parsed == parse_merge_command(loc[i].github_event.body)
           l == [At(loc[i], "parse", {}) EXCEPT
                    !.target_repo_default_branch = parsed[1],
                    !.approved_pr_head_sha = parsed[2],
                    !.additional_colbs = parsed[3]]
       IN  Set(i, IF ~(/\ IsSome(parsed[1]) /\ Val(parsed[1]) # << >>
                       /\ IsSome(parsed[2]) /\ Val(parsed[2]) # << >>
                       /\ IsSome(parsed[3]))
                  THEN Exit(l, 1)
                  ELSE Goto(l, "fetch_pr"))
    /\ UNCHANGED << pr, fork_head, org_repos, ext_count >>

\* the organization, the intake repository, the comment author and the
\* review request are fetched; the request's author joins the collaborators
FetchPR(i) ==
    /\ loc[i].pc = "fetch_pr"
    /\ \E ok \in BOOLEAN :
          LET l == At(loc[i], "fetch_pr",
                      {"get_organization", "get_repo", "get_user", "get_pull"})
          IN  Set(i, IF ~ok THEN Fault(l)
                     ELSE Goto([l EXCEPT !.pr = Some(pr),
                                         !.additional_colbs =
                                             Some(Append(Val(@), PrAuthor))],
                               "authorize"))
    /\ UNCHANGED << pr, fork_head, org_repos, ext_count >>

Authorize(i) ==
    /\ loc[i].pc = "authorize"
    /\ \E ok, admin, reviewer \in BOOLEAN :
          \* "or": the reviewers team is asked only for one who is no admin
          /\ admin => ~reviewer
          /\ LET l == [At(loc[i], "authorize", {"get_team_by_slug", "has_in_members"})
                          EXCEPT !.admin = admin, !.reviewer = reviewer]
             IN  Set(i, IF ~ok THEN Fault(l)
                        ELSE IF ~is_authorized_commenter(admin, reviewer) THEN Exit(l, 1)
                        ELSE Goto(l, "mktmp"))
    /\ UNCHANGED << pr, fork_head, org_repos, ext_count >>

\* tempfile.TemporaryDirectory() entered
MakeTmpDir(i) ==
    /\ loc[i].pc = "mktmp"
    /\ Set(i, Goto([At(loc[i], "mktmp", {}) EXCEPT !.tmpdir = TRUE], "clone"))
    /\ UNCHANGED << pr, fork_head, org_repos, ext_count >>

\* pygit2.clone_repository and the submodule update: the clone holds the
\* fork's branch as it is now
CloneRepository(i) ==
    /\ loc[i].pc = "clone"
    /\ \E ok \in BOOLEAN, dir \in Dirs :
          \E files \in Listings(dir) :
             LET l == At(loc[i], "clone", {"clone_repository"})
             IN  Set(i, IF ~ok THEN Fault(l)
                        ELSE Goto([l EXCEPT !.clone_head_sha = Some(fork_head),
                                            !.files = files], "verify_pr"))
    /\ UNCHANGED << pr, fork_head, org_repos, ext_count >>

\* the rest of clone_pr_fork: the request is fetched again and checked
VerifyClone(i) ==
    /\ loc[i].pc = "verify_pr"
    /\ \E ok \in BOOLEAN :
          LET l == At(loc[i], "verify_pr", {"get_pull"})
              m == [l EXCEPT !.pr_tmp = Some(pr)]
          IN  Set(i, IF ~ok THEN Fault(l)
                     ELSE IF ~clone_pr_fork(pr.state, Val(l.clone_head_sha),
                                            pr.head_sha, Val(l.approved_pr_head_sha))
                     THEN Exit(m, 1)
                     ELSE Goto(m, "detect"))
    /\ UNCHANGED << pr, fork_head, org_repos, ext_count >>

DetectAppid(i) ==
    /\ loc[i].pc = "detect"
    /\ \E raised \in IF detect_appid_reads_no_root(loc[i].files) THEN BOOLEAN ELSE {FALSE} :
          LET found == detect_appid(loc[i].files)
              l == [At(loc[i], "detect", {}) EXCEPT
                       !.manifest_file = found[1], !.appid = found[2]]
          IN  Set(i, IF raised THEN Fault(At(loc[i], "detect", {}))
                     ELSE IF ~(IsSome(found[1]) /\ IsSome(found[2])) THEN Exit(l, 1)
                     ELSE Goto(l, "repo_exists"))
    /\ UNCHANGED << pr, fork_head, org_repos, ext_count >>

\* get_repo_in_org is not None: a repository was returned.  Any error of the
\* call, "not found" or another, gives None.
repo_exists_in_org(outcome, present) == outcome = "ok" /\ present

\* create_new_flathub_repo returning the repository it found instead of None
RepoExists_returns_found(i) ==
    /\ loc[i].pc = "repo_exists"
    /\ \E outcome \in {"ok", "error"} :
          LET found == repo_exists_in_org(outcome, org_repos[Val(loc[i].appid)].exists)
              l == [At(loc[i], "repo_exists", {"get_repo"}) EXCEPT
                       !.found_existing = found,
                       !.get_repo_error = (outcome = "error"),
                       !.failed = @ \/ outcome = "error"]
          IN  Set(i, IF found THEN Goto([l EXCEPT !.created_repo_obj = l.appid], "push")
                     ELSE Goto(l, "create_repo"))
    /\ UNCHANGED << pr, fork_head, org_repos, ext_count >>

\* create_new_flathub_repo, first the existence check
RepoExists(i) ==
    /\ loc[i].pc = "repo_exists"
    /\ \E outcome \in {"ok", "error"} :
          LET found == repo_exists_in_org(outcome, org_repos[Val(loc[i].appid)].exists)
              l == [At(loc[i], "repo_exists", {"get_repo"}) EXCEPT
                       !.found_existing = found,
                       !.get_repo_error = (outcome = "error"),
                       !.failed = @ \/ outcome = "error"]
          IN  Set(i, IF found THEN Exit(l, 1) ELSE Goto(l, "create_repo"))
    /\ UNCHANGED << pr, fork_head, org_repos, ext_count >>

\* create_new_flathub_repo taking the repository that is there when the
\* service refuses to create it
CreateRepo_or_take(i) ==
    /\ loc[i].pc = "create_repo"
    /\ LET name == Val(loc[i].appid)
           l == At(loc[i], "create_repo", {"create_repo"})
       IN  \E ok \in BOOLEAN :
              IF ok /\ ~org_repos[name].exists
              THEN /\ org_repos' = [org_repos EXCEPT ![name] = NewRepo]
                   /\ Set(i, Goto(l, "edit_repo"))
              ELSE /\ UNCHANGED org_repos
                   /\ Set(i, IF org_repos[name].exists THEN Goto(l, "edit_repo")
                             ELSE Fail(l))
    /\ UNCHANGED << pr, fork_head, ext_count >>

\* org.create_repo: the service refuses a name that is taken
CreateRepo(i) ==
    /\ loc[i].pc = "create_repo"
    /\ LET name == Val(loc[i].appid)
           l == At(loc[i], "create_repo", {"create_repo"})
       IN  \E ok \in BOOLEAN :
              IF ok /\ ~org_repos[name].exists
              THEN /\ org_repos' = [org_repos EXCEPT ![name] = NewRepo]
                   /\ Set(i, Goto(l, "edit_repo"))
              ELSE /\ UNCHANGED org_repos
                   /\ Set(i, Fail(l))
    /\ UNCHANGED << pr, fork_head, ext_count >>

\* repo.edit, and the repository is returned
EditRepo(i) ==
    /\ loc[i].pc = "edit_repo"
    /\ LET name == Val(loc[i].appid)
           l == At(loc[i], "edit_repo", {"edit_repo"})
       IN  \E ok \in BOOLEAN :
              IF ok
              THEN /\ org_repos' = [org_repos EXCEPT ![name].homepage = TRUE]
                   /\ Set(i, Goto([l EXCEPT !.created_repo_obj = Some(name)], "push"))
              ELSE /\ UNCHANGED org_repos
                   /\ Set(i, Fail(l))
    /\ UNCHANGED << pr, fork_head, ext_count >>

\* finalize_new_flathub_repo: the remote is added and the clone's branch pushed
Push(i) ==
    /\ loc[i].pc = "push"
    /\ LET name == Val(loc[i].created_repo_obj)
           branch == Val(loc[i].target_repo_default_branch)
           l == At(loc[i], "push", {"git_push"})
       IN  \E ok \in BOOLEAN :
              IF ok
              THEN /\ org_repos' = [org_repos EXCEPT ![name].heads =
                          {h \in @ : h[1] # branch}
                              \cup {<< branch, Val(loc[i].clone_head_sha) >>}]
                   /\ Set(i, Goto(l, "remove_bot"))
              ELSE /\ UNCHANGED org_repos
                   /\ Set(i, Fail(l))
    /\ UNCHANGED << pr, fork_head, ext_count >>

\* remove_from_collaborators("flathubbot"): its error is not caught
RemoveBot(i) ==
    /\ loc[i].pc = "remove_bot"
    /\ LET name == Val(loc[i].created_repo_obj)
           l == At(loc[i], "remove_bot", {"remove_from_collaborators"})
       IN  \E ok \in BOOLEAN :
              IF ok
              THEN /\ org_repos' = [org_repos EXCEPT ![name].bot = FALSE]
                   /\ Set(i, Goto(l, "protect"))
              ELSE /\ UNCHANGED org_repos
                   /\ Set(i, Fault(l))
    /\ UNCHANGED << pr, fork_head, ext_count >>

\* the loop over the patterns: the first k calls succeed; an error of
\* set_protected_branch is not caught and ends the loop and main()
ProtectBranches(i) ==
    /\ loc[i].pc = "protect"
    /\ LET name == Val(loc[i].created_repo_obj)
           l == At(loc[i], "protect", {"set_protected_branch"})
       IN  \E k \in 0..Len(ProtectedPatterns) :
              /\ org_repos' = [org_repos EXCEPT ![name].rules =
                                  @ \cup {ProtectedPatterns[j] : j \in 1..k}]
              /\ Set(i, IF k = Len(ProtectedPatterns)
                        THEN Goto([l EXCEPT !.protect_calls = k], "verify_remote")
                        ELSE Fault([l EXCEPT !.protect_calls = k + 1]))
    /\ UNCHANGED << pr, fork_head, ext_count >>

\* get_branch and the two checks on it
VerifyRemote(i) ==
    /\ loc[i].pc = "verify_remote"
    /\ LET repo == org_repos[Val(loc[i].created_repo_obj)]
           branch == Val(loc[i].target_repo_default_branch)
           head == BranchHead(repo, branch)
           l == At(loc[i], "verify_remote", {"get_branch"})
           m == [l EXCEPT !.remote_branch_obj =
                    Some([sha |-> Val(head),
                          protected |-> BranchProtected(repo, branch)])]
       IN  \E ok \in BOOLEAN :
              Set(i, IF ~ok \/ ~IsSome(head) THEN Fault(l)
                     ELSE IF ~remote_verified(Val(head), BranchProtected(repo, branch),
                                              Val(l.approved_pr_head_sha))
                     THEN Exit(m, 1)
                     ELSE Goto(m, "grant"))
    /\ UNCHANGED << pr, fork_head, org_repos, ext_count >>

\* add_all_collaborators: the users, then the teams; the first k grants
\* succeed, and an error ends the function with False
AddAllCollaborators(i) ==
    /\ loc[i].pc = "grant"
    /\ LET name == Val(loc[i].created_repo_obj)
           users == Val(loc[i].additional_colbs)
           teams == teams_to_add(name)
           l == At(loc[i], "grant",
                   {"add_to_collaborators", "get_team_by_slug", "update_team_repository"})
       IN  \E k \in 0..(Len(users) + Len(teams)) :
              /\ org_repos' = [org_repos EXCEPT
                    ![name].collaborators =
                        @ \cup {users[j] : j \in 1..Min(k, Len(users))},
                    ![name].teams =
                        @ \cup {teams[j] : j \in 1..(k - Len(users))}]
              /\ Set(i, IF k = Len(users) + Len(teams) THEN Goto(l, "verify_open")
                        ELSE Fail(l))
    /\ UNCHANGED << pr, fork_head, ext_count >>

\* flathub.get_pull(pr_id).state != "open"
VerifyOpen(i) ==
    /\ loc[i].pc = "verify_open"
    /\ \E ok \in BOOLEAN :
          LET l == At(loc[i], "verify_open", {"get_pull"})
          IN  Set(i, IF ~ok THEN Fault(l)
                     ELSE IF pr.state # "open" THEN Exit(l, 1)
                     ELSE Goto(l, "set_labels"))
    /\ UNCHANGED << pr, fork_head, org_repos, ext_count >>

(***************************************************************************)
(* close_pr: four calls on the review request inside one try block; a      *)
(* GithubException of any of them returns False.                           *)
(***************************************************************************)
SetLabels(i) ==
    /\ loc[i].pc = "set_labels"
    /\ LET l == At(loc[i], "set_labels", {"set_labels"})
       IN  \E ok \in BOOLEAN :
              IF ok
              THEN /\ pr' = [pr EXCEPT !.labels = {"ready"}]
                   /\ Set(i, Goto(l, "comment"))
              ELSE /\ UNCHANGED pr
                   /\ Set(i, Fail(l))
    /\ UNCHANGED << fork_head, org_repos, ext_count >>

CreateIssueComment(i) ==
    /\ loc[i].pc = "comment"
    /\ LET l == At(loc[i], "comment", {"create_issue_comment"})
       IN  \E ok \in BOOLEAN :
              IF ok
              THEN /\ pr' = [pr EXCEPT !.comments = @ + 1]
                   /\ Set(i, Goto(l, "edit_closed"))
              ELSE /\ UNCHANGED pr
                   /\ Set(i, Fail(l))
    /\ UNCHANGED << fork_head, org_repos, ext_count >>

EditClosed(i) ==
    /\ loc[i].pc = "edit_closed"
    /\ LET l == At(loc[i], "edit_closed", {"edit_state_closed"})
       IN  \E ok \in BOOLEAN :
              IF ok
              THEN /\ pr' = [pr EXCEPT !.state = "closed"]
                   /\ Set(i, Goto(l, "get_issue"))
              ELSE /\ UNCHANGED pr
                   /\ Set(i, Fail(l))
    /\ UNCHANGED << fork_head, org_repos, ext_count >>

\* get_issue_from_pr catches the error of get_issue and returns None; the
\* issue fetched carries the thread's locked flag as it is now
GetIssue(i) ==
    /\ loc[i].pc = "get_issue"
    /\ \E ok \in BOOLEAN :
          LET l == At(loc[i], "get_issue", {"get_issue"})
          IN  Set(i, Goto([l EXCEPT !.issue_obj = IF ok THEN Some(pr.locked) ELSE None,
                                    !.failed = @ \/ ~ok], "lock"))
    /\ UNCHANGED << pr, fork_head, org_repos, ext_count >>

\* the lock condition without its "not"
lock_needed_inverted(issue_obj) == IsSome(issue_obj) /\ Val(issue_obj)

\* the lock condition without the test of issue_obj.locked
lock_needed_any_thread(issue_obj) == IsSome(issue_obj)

\* if issue_obj and not issue_obj.locked
lock_needed(issue_obj) == IsSome(issue_obj) /\ ~Val(issue_obj)

\* issue_obj.lock("resolved"), or nothing; then close_pr returns True
LockIssue(i) ==
    /\ loc[i].pc = "lock"
    /\ IF lock_needed(loc[i].issue_obj)
       THEN LET l == At(loc[i], "lock", {"lock"})
            IN  \E ok \in BOOLEAN :
                   IF ok
                   THEN /\ pr' = [pr EXCEPT !.locked = TRUE]
                        /\ Set(i, Goto(l, "verify_closed"))
                   ELSE /\ UNCHANGED pr
                        /\ Set(i, Fail(l))
       ELSE /\ UNCHANGED pr
            /\ Set(i, Goto(At(loc[i], "lock", {}), "verify_closed"))
    /\ UNCHANGED << fork_head, org_repos, ext_count >>

\* the end of main() without the comparison of the state fetched
VerifyClosed_any_state(i) ==
    /\ loc[i].pc = "verify_closed"
    /\ \E ok \in BOOLEAN :
          LET l == At(loc[i], "verify_closed", {"get_pull"})
          IN  Set(i, IF ~ok THEN Fault(l) ELSE Exit(l, 0))
    /\ UNCHANGED << pr, fork_head, org_repos, ext_count >>

\* flathub.get_pull(pr_id).state != "closed", and return 0
VerifyClosed(i) ==
    /\ loc[i].pc = "verify_closed"
    /\ \E ok \in BOOLEAN :
          LET l == At(loc[i], "verify_closed", {"get_pull"})
          IN  Set(i, IF ~ok THEN Fault(l)
                     ELSE IF pr.state # "closed" THEN Exit(l, 1)
                     ELSE Exit(l, 0))
    /\ UNCHANGED << pr, fork_head, org_repos, ext_count >>

\* the steps of main() in the order of its text
Workflow ==
    << "token", "event", "parse", "fetch_pr", "authorize", "mktmp", "clone",
       "verify_pr", "detect", "repo_exists", "create_repo", "edit_repo", "push",
       "remove_bot", "protect", "verify_remote", "grant", "verify_open",
       "set_labels", "comment", "edit_closed", "get_issue", "lock",
       "verify_closed" >>

(***************************************************************************)
(* External actors: other users of the remote service change the review    *)
(* request, the fork and the organization's repositories while an          *)
(* invocation is talking to the service.  What they did before its first   *)
(* call is an initial state.                                               *)
(***************************************************************************)
ExternalMayAct ==
    /\ ext_count < MaxExternal
    /\ \E i \in Invocations : loc[i].pc # "done" /\ loc[i].calls # {}

ExtSetState ==
    /\ ExternalMayAct
    /\ pr' = [pr EXCEPT !.state = IF @ = "open" THEN "closed" ELSE "open"]
    /\ ext_count' = ext_count + 1
    /\ UNCHANGED << loc, fork_head, org_repos >>

\* the request's head moves to another commit
ExtUpdatePR ==
    /\ ExternalMayAct
    /\ \E sha \in Shas \ {pr.head_sha} : pr' = [pr EXCEPT !.head_sha = sha]
    /\ ext_count' = ext_count + 1
    /\ UNCHANGED << loc, fork_head, org_repos >>

ExtPushFork ==
    /\ ExternalMayAct
    /\ \E sha \in Shas \ {fork_head} : fork_head' = sha
    /\ ext_count' = ext_count + 1
    /\ UNCHANGED << loc, pr, org_repos >>

ExtLockThread ==
    /\ ExternalMayAct
    /\ pr' = [pr EXCEPT !.locked = ~@]
    /\ ext_count' = ext_count + 1
    /\ UNCHANGED << loc, fork_head, org_repos >>

ExtCreateRepo ==
    /\ ExternalMayAct
    /\ \E name \in AppIds :
          /\ ~org_repos[name].exists
          /\ org_repos' = [org_repos EXCEPT ![name] = NewRepo]
    /\ ext_count' = ext_count + 1
    /\ UNCHANGED << loc, pr, fork_head >>

\* a branch of a destination repository moves to another commit
ExtPushDestination ==
    /\ ExternalMayAct
    /\ \E name \in AppIds :
          \E h \in org_repos[name].heads :
             \E sha \in Shas \ {h[2]} :
                org_repos' = [org_repos EXCEPT ![name].heads =
                                 (@ \ {h}) \cup {<< h[1], sha >>}]
    /\ ext_count' = ext_count + 1
    /\ UNCHANGED << loc, pr, fork_head >>

\* the protection rules of a destination repository are deleted
ExtUnprotect ==
    /\ ExternalMayAct
    /\ \E name \in AppIds :
          /\ org_repos[name].rules # {}
          /\ org_repos' = [org_repos EXCEPT ![name].rules = {}]
    /\ ext_count' = ext_count + 1
    /\ UNCHANGED << loc, pr, fork_head >>

External ==
    \/ ExtSetState
    \/ ExtUpdatePR
    \/ ExtPushFork
    \/ ExtLockThread
    \/ ExtCreateRepo
    \/ ExtPushDestination
    \/ ExtUnprotect

Main(i) ==
    \/ CheckToken(i)
    \/ ValidateEvent(i)
    \/ ParseCommand(i)
    \/ FetchPR(i)
    \/ Authorize(i)
    \/ MakeTmpDir(i)
    \/ CloneRepository(i)
    \/ VerifyClone(i)
    \/ DetectAppid(i)
    \/ RepoExists(i)
    \/ CreateRepo(i)
    \/ EditRepo(i)
    \/ Push(i)
    \/ RemoveBot(i)
    \/ ProtectBranches(i)
    \/ VerifyRemote(i)
    \/ AddAllCollaborators(i)
    \/ VerifyOpen(i)
    \/ SetLabels(i)
    \/ CreateIssueComment(i)
    \/ EditClosed(i)
    \/ GetIssue(i)
    \/ LockIssue(i)
    \/ VerifyClosed(i)

Next == (\E i \in Invocations : Main(i)) \/ External

Spec == Init /\ [][Next]_vars

(***************************************************************************)
(* The parser on its own: the event of the invocation carries any comment  *)
(* of ParserComments, and the only step is the parsing.                    *)
(***************************************************************************)
ParserInit ==
    /\ \E body \in ParserComments :
          loc = [i \in {1} |->
                    [InitLocals EXCEPT
                        !.pc = "parse",
                        !.github_token = TRUE,
                        !.github_event = [empty |-> FALSE, action |-> "created",
                                          pull_request |-> TRUE, body |-> body],
                        !.steps = << "token", "event" >>]]
    /\ pr = [state |-> "open", head_sha |-> ShaA, labels |-> {}, comments |-> 0,
             locked |-> FALSE]
    /\ fork_head = ShaA
    /\ org_repos = [n \in AppIds |-> AbsentRepo]
    /\ ext_count = 0

ParserNext == \E i \in Invocations : ParseCommand(i)

ParserSpec == ParserInit /\ [][ParserNext]_vars

(***************************************************************************)
(* The resolver on its own: the clone holds any directory of DetectDirs,   *)
(* listed in any order glob can give, and the only step is detect_appid.   *)
(***************************************************************************)
DetectInit ==
    /\ \E dir \in DetectDirs :
          \E files \in Listings(dir) :
             loc = [i \in {1} |->
                       [InitLocals EXCEPT
                           !.pc = "detect",
                           !.github_token = TRUE,
                           !.tmpdir = TRUE,
                           !.files = files,
                           !.steps = SubSeq(Workflow, 1, 8)]]
    /\ pr = [state |-> "open", head_sha |-> ShaA, labels |-> {}, comments |-> 0,
             locked |-> FALSE]
    /\ fork_head = ShaA
    /\ org_repos = [n \in AppIds |-> AbsentRepo]
    /\ ext_count = 0

DetectNext == \E i \in Invocations : DetectAppid(i)

DetectSpec == DetectInit /\ [][DetectNext]_vars

(***************************************************************************)
(* The access grant on its own: a repository of any name of GrantNames has *)
(* been created and published, and the only step is add_all_collaborators. *)
(***************************************************************************)
GnomeFoo == GnomePrefix \o << "F" >>

GnomeFooBar == GnomePrefix \o << "F", ".", "B" >>

GrantNames ==
    { IdApp, IdKde, IdKde \o << ".", "L" >>, GnomeFoo, GnomeFooBar, GnomePrefix,
      << "o", "r", "g", ".", "k", "d", "e" >>,
      << "o", "r", "g", ".", "k", "d", "e", "x", ".", "K" >>,
      << "o", "r", "g", ".", "g", "n", "o", "m", "e" >>,
      << "o", "r", "g", ".", "g", "n", "o", "m", "e", "x", ".", "F" >>,
      << "x", "." >> \o GnomeFoo,
      << "O", "r", "g", ".", "g", "n", "o", "m", "e", ".", "F" >> }

GrantColbs == { << PrAuthor >>, << Alice, PrAuthor >>, << Alice, Bob, PrAuthor >> }

GrantInit ==
    /\ \E name \in GrantNames, users \in GrantColbs :
          /\ loc = [i \in {1} |->
                       [InitLocals EXCEPT
                           !.pc = "grant",
                           !.github_token = TRUE,
                           !.tmpdir = TRUE,
                           !.additional_colbs = Some(users),
                           !.appid = Some(name),
                           !.created_repo_obj = Some(name),
                           !.steps = SubSeq(Workflow, 1, 16)]]
          /\ org_repos = [n \in {name} |-> [NewRepo EXCEPT !.bot = FALSE]]
    /\ pr = [state |-> "open", head_sha |-> ShaA, labels |-> {}, comments |-> 0,
             locked |-> FALSE]
    /\ fork_head = ShaA
    /\ ext_count = 0

GrantNext == \E i \in Invocations : AddAllCollaborators(i)

GrantSpec == GrantInit /\ [][GrantNext]_vars

(***************************************************************************)
(* Vocabulary of the properties.                                           *)
(***************************************************************************)
Done(i) == loc[i].pc = "done"

Executed(i, step) == \E k \in 1..Len(loc[i].steps) : loc[i].steps[k] = step

ProvisionCalls == {"create_repo", "edit_repo"}

PublishCalls == {"git_push", "remove_from_collaborators", "set_protected_branch"}

GrantCalls == {"add_to_collaborators", "update_team_repository"}

ClosureCalls == {"set_labels", "create_issue_comment", "edit_state_closed", "lock"}

\* the position of a step in the text of main()
StepIndex(step) == CHOOSE k \in 1..Len(Workflow) : Workflow[k] = step

IsPrefix(s, t) == Len(s) <= Len(t) /\ SubSeq(t, 1, Len(s)) = s

\* a file whose declared identifier is its own base name
SelfNaming(f) ==
    /\ Truthy(get_id_from_flatpak_manifest(f))
    /\ SplitExtBase(f.name) = Val(get_id_from_flatpak_manifest(f))

\* the trigger is a "created" comment on a review request, with a token
TriggerWellFormed(i) ==
    /\ loc[i].github_token
    /\ ~loc[i].github_event.empty
    /\ loc[i].github_event.action = "created"
    /\ loc[i].github_event.pull_request

\* the repository of the resolved name exists only if this invocation made it
DestinationWasAbsent(i) ==
    IsSome(loc[i].appid) =>
        \/ ~org_repos[Val(loc[i].appid)].exists
        \/ Executed(i, "edit_repo")

(***************************************************************************)
(* C1.  A run with a valid command, an authorized commenter, an open       *)
(* review request whose live head and cloned head are the approved SHA, a  *)
(* self-naming manifest, no destination repository yet, every call         *)
(* succeeding and no external change ends, exits 0, and leaves the review  *)
(* request closed with its thread locked.                                  *)
(***************************************************************************)
C1_Premises(i) ==
    /\ TriggerWellFormed(i)
    /\ IsSome(loc[i].approved_pr_head_sha)
    /\ loc[i].admin \/ loc[i].reviewer
    /\ pr.head_sha = Val(loc[i].approved_pr_head_sha)
    /\ loc[i].clone_head_sha = loc[i].approved_pr_head_sha
    /\ \E k \in 1..Len(loc[i].files) : SelfNaming(loc[i].files[k])
    /\ DestinationWasAbsent(i)
    /\ ~loc[i].failed
    /\ ext_count = 0

C1_EndToEndSuccess ==
    pr.state = "open" =>
        [](\A i \in Invocations :
              Done(i) /\ C1_Premises(i) =>
                  /\ loc[i].exit_code = Some(0)
                  /\ pr.state = "closed"
                  /\ pr.locked)

C1_Witness ==
    \E i \in Invocations :
        /\ Done(i) /\ C1_Premises(i)
        /\ Executed(i, "verify_closed")
        /\ Val(loc[i].issue_obj) = FALSE
        /\ pr.state = "closed" /\ pr.locked

(***************************************************************************)
(* C2.  When the comment author is a member of neither the admins nor the  *)
(* reviewers team, the invocation ends with exit code 1 and has issued no  *)
(* call that creates or edits a repository, pushes, grants access, or      *)
(* labels, comments, closes or locks the review request.                   *)
(***************************************************************************)
Unauthorized(i) ==
    /\ Executed(i, "authorize")
    /\ ~loc[i].admin /\ ~loc[i].reviewer

C2_UnauthorizedNoEffect ==
    \A i \in Invocations :
        Unauthorized(i) =>
            /\ Done(i)
            /\ loc[i].exit_code = Some(1)
            /\ loc[i].calls \cap
                  (ProvisionCalls \cup PublishCalls \cup GrantCalls \cup ClosureCalls) = {}
            /\ ~Executed(i, "mktmp")
            /\ pr.labels = {} /\ pr.comments = 0
            /\ \A n \in AppIds :
                  /\ org_repos[n].heads = {}
                  /\ org_repos[n].collaborators = {}
                  /\ org_repos[n].teams = {}

C2_Witness ==
    \E i \in Invocations :
        /\ Unauthorized(i) /\ ~loc[i].fault
        /\ loc[i].exit_code = Some(1)
        /\ pr.state = "open"
        /\ pr.head_sha = Val(loc[i].approved_pr_head_sha)

(***************************************************************************)
(* C3.  clone_pr_fork returns no clone when the request it fetched is not  *)
(* open, or the cloned head differs from the approved SHA, or the fetched  *)
(* head differs from the approved SHA, whatever the other two are; main()  *)
(* then ends with 1, having created no repository and pushed nothing.      *)
(***************************************************************************)
\* what clone_pr_fork compared, once it has fetched the request
AcquisitionMismatch(i) ==
    /\ IsSome(loc[i].pr_tmp)
    /\ \/ Val(loc[i].pr_tmp).state # "open"
       \/ loc[i].clone_head_sha # loc[i].approved_pr_head_sha
       \/ Val(loc[i].pr_tmp).head_sha # Val(loc[i].approved_pr_head_sha)

C3_AcquisitionRejects ==
    \A i \in Invocations :
        AcquisitionMismatch(i) =>
            /\ Done(i)
            /\ loc[i].exit_code = Some(1)
            /\ ~Executed(i, "detect")
            /\ loc[i].calls \cap (ProvisionCalls \cup PublishCalls) = {}
            /\ \A n \in AppIds : org_repos[n].heads = {}

\* the cloned head alone differs: the request is open and its head is the
\* approved one
C3_Witness ==
    \E i \in Invocations :
        /\ AcquisitionMismatch(i)
        /\ Val(loc[i].pr_tmp).state = "open"
        /\ Val(loc[i].pr_tmp).head_sha = Val(loc[i].approved_pr_head_sha)
        /\ loc[i].clone_head_sha # loc[i].approved_pr_head_sha
        /\ loc[i].exit_code = Some(1)

(***************************************************************************)
(* C4.  The review request is labelled, commented, closed or locked by an  *)
(* invocation only in the closure step, which starts only after every      *)
(* earlier step has succeeded; an invocation that ends before the closure  *)
(* step has issued none of these calls, and without them the request       *)
(* carries no label and no comment of the program.                         *)
(***************************************************************************)
\* the steps before the closure step, in order
BeforeClosure == SubSeq(Workflow, 1, StepIndex("verify_open"))

\* what the steps before the closure step established
PriorStepsSucceeded(i) ==
    /\ IsPrefix(BeforeClosure, loc[i].steps)
    /\ TriggerWellFormed(i)
    /\ IsSome(loc[i].approved_pr_head_sha)
    /\ loc[i].admin \/ loc[i].reviewer
    /\ IsSome(loc[i].pr_tmp) /\ ~AcquisitionMismatch(i)
    /\ IsSome(loc[i].appid)
    /\ loc[i].created_repo_obj = loc[i].appid
    /\ IsSome(loc[i].remote_branch_obj)
    /\ Val(loc[i].remote_branch_obj).sha = Val(loc[i].approved_pr_head_sha)
    /\ Val(loc[i].remote_branch_obj).protected
    /\ \A k \in 1..Len(Val(loc[i].additional_colbs)) :
          Val(loc[i].additional_colbs)[k]
              \in org_repos[Val(loc[i].appid)].collaborators
    /\ "trusted-maintainers" \in org_repos[Val(loc[i].appid)].teams

C4_MutationOnlyInClosure ==
    /\ \A i \in Invocations :
          /\ loc[i].calls \cap ClosureCalls # {} => PriorStepsSucceeded(i)
          /\ Done(i) /\ ~Executed(i, "set_labels") => loc[i].calls \cap ClosureCalls = {}
    /\ (\A i \in Invocations : loc[i].calls \cap ClosureCalls = {}) =>
          pr.labels = {} /\ pr.comments = 0

C4_Witness ==
    /\ \E i \in Invocations : ClosureCalls \subseteq loc[i].calls /\ ext_count > 0
    /\ pr.labels = {"ready"} /\ pr.comments = 1

(***************************************************************************)
(* C5.  The steps of an invocation are taken once each, in the order of    *)
(* the workflow.  It returns 0 only after all of them, each having         *)
(* succeeded; an invocation that ends earlier ends with 1.  After it has   *)
(* ended it takes no step, and no step of an invocation undoes a           *)
(* repository, a grant, a label or a comment.                              *)
(***************************************************************************)
C5_Linear(i) ==
    /\ IsPrefix(loc[i].steps, Workflow)
    /\ Done(i) <=> IsSome(loc[i].exit_code)
    /\ Done(i) => loc[i].exit_code \in {Some(0), Some(1)}
    /\ Done(i) /\ loc[i].steps # Workflow => loc[i].exit_code = Some(1)
    /\ loc[i].fault => loc[i].exit_code = Some(1)
    /\ loc[i].exit_code = Some(0) =>
          /\ loc[i].steps = Workflow
          /\ PriorStepsSucceeded(i)
          /\ {"set_labels", "create_issue_comment", "edit_state_closed"}
                \subseteq loc[i].calls
          /\ pr.state = "closed"

\* a step of invocation i keeps what exists on the remote service
C5_NoRollback ==
    /\ \A n \in AppIds :
          /\ org_repos[n].exists => org_repos'[n].exists
          /\ org_repos[n].homepage => org_repos'[n].homepage
          /\ org_repos[n].rules \subseteq org_repos'[n].rules
          /\ org_repos[n].collaborators \subseteq org_repos'[n].collaborators
          /\ org_repos[n].teams \subseteq org_repos'[n].teams
          /\ {h[1] : h \in org_repos[n].heads} \subseteq {h[1] : h \in org_repos'[n].heads}
    /\ pr.labels \subseteq pr'.labels
    /\ pr.comments <= pr'.comments

C5_FailureIsTerminal ==
    /\ [](\A i \in Invocations : C5_Linear(i))
    /\ [][\A i \in Invocations :
            /\ Done(i) => loc'[i] = loc[i]
            /\ loc'[i] # loc[i] => C5_NoRollback]_vars

\* an invocation that failed in the closure step, after the repository was
\* created, pushed to and opened to the collaborators
C5_Witness ==
    \E i \in Invocations :
        /\ loc[i].exit_code = Some(1)
        /\ Executed(i, "comment") /\ ~Executed(i, "edit_closed")
        /\ org_repos[Val(loc[i].appid)].exists
        /\ org_repos[Val(loc[i].appid)].heads # {}
        /\ PrAuthor \in org_repos[Val(loc[i].appid)].collaborators
        /\ pr.labels = {"ready"}

(***************************************************************************)
(* C6.  finalize_new_flathub_repo fails when the branch it fetches after   *)
(* the push has another head than the approved SHA, or is not protected,   *)
(* although the push succeeded; main() then ends with 1 without granting   *)
(* access and without touching the review request.                         *)
(***************************************************************************)
PublicationMismatch(i) ==
    /\ IsSome(loc[i].remote_branch_obj)
    /\ \/ Val(loc[i].remote_branch_obj).sha # Val(loc[i].approved_pr_head_sha)
       \/ ~Val(loc[i].remote_branch_obj).protected

C6_PublicationVerifies ==
    \A i \in Invocations :
        PublicationMismatch(i) =>
            /\ Done(i)
            /\ loc[i].exit_code = Some(1)
            /\ ~Executed(i, "grant")
            /\ loc[i].calls \cap (GrantCalls \cup ClosureCalls) = {}
            /\ org_repos[Val(loc[i].appid)].collaborators = {}
            /\ org_repos[Val(loc[i].appid)].teams = {}
            /\ pr.labels = {} /\ pr.comments = 0

\* the push succeeded, the patterns were protected, and the branch moved
C6_Witness ==
    \E i \in Invocations :
        /\ PublicationMismatch(i)
        /\ Executed(i, "remove_bot") /\ "git_push" \in loc[i].calls
        /\ Val(loc[i].remote_branch_obj).protected
        /\ Val(loc[i].remote_branch_obj).sha # Val(loc[i].approved_pr_head_sha)
        /\ loc[i].clone_head_sha = loc[i].approved_pr_head_sha
        /\ loc[i].exit_code = Some(1)

\* the same with the head as pushed and the protection gone
C6_WitnessUnprotected ==
    \E i \in Invocations :
        /\ PublicationMismatch(i)
        /\ ~Val(loc[i].remote_branch_obj).protected
        /\ Val(loc[i].remote_branch_obj).sha = Val(loc[i].approved_pr_head_sha)

(***************************************************************************)
(* create_new_flathub_repo called twice in sequence with the same name:    *)
(* two invocations have resolved the same identifier, and the second       *)
(* begins the provisioning when the first has returned from it.            *)
(***************************************************************************)
Returned(i) == loc[i].pc \in {"push", "done"}

ProvisionInit ==
    /\ \E name \in AppIds :
          loc = [i \in {1, 2} |->
                    [InitLocals EXCEPT
                        !.pc = "repo_exists",
                        !.github_token = TRUE,
                        !.appid = Some(name),
                        !.steps = SubSeq(Workflow, 1, 9)]]
    /\ InitRemote

ProvisionNext ==
    \E i \in Invocations :
        /\ i = 1 \/ Returned(1)
        /\ RepoExists(i) \/ CreateRepo(i) \/ EditRepo(i)

ProvisionSpec == ProvisionInit /\ [][ProvisionNext]_vars

\* org.create_repo of invocation i succeeded
Created(i) ==
    /\ Executed(i, "create_repo")
    /\ loc[i].pc = "edit_repo" \/ Executed(i, "edit_repo")

\* the repository was there when the second call began: it exists, and not
\* by the second call
PresentAtSecond == org_repos[Val(loc[2].appid)].exists /\ ~Created(2)

(***************************************************************************)
(* C7.  Of two calls of create_new_flathub_repo in sequence with the same  *)
(* name at most one creates the repository; the second finds it present,   *)
(* issues no create call and returns None without raising.                 *)
(***************************************************************************)
C7_SecondCallCreatesNothing ==
    /\ Cardinality({i \in Invocations : Created(i)}) <= 1
    /\ Returned(2) /\ PresentAtSecond =>
          /\ loc[2].found_existing
          /\ "create_repo" \notin loc[2].calls
          /\ loc[2].created_repo_obj = None
          /\ ~loc[2].fault

\* C7 where the existence check of the second call is answered: the claim
\* holds of these runs
C7_WhenCheckAnswered ==
    /\ Cardinality({i \in Invocations : Created(i)}) <= 1
    /\ Returned(2) /\ PresentAtSecond =>
          loc[2].created_repo_obj = None /\ ~loc[2].fault
    /\ Returned(2) /\ PresentAtSecond /\ ~loc[2].failed =>
          /\ loc[2].found_existing
          /\ "create_repo" \notin loc[2].calls

C7_Witness ==
    /\ Created(1) /\ loc[1].created_repo_obj = loc[1].appid
    /\ Returned(2) /\ loc[2].found_existing

(***************************************************************************)
(* C8.  A command whose head= value has fewer or more than 40 characters,  *)
(* or a character that is no hexadecimal digit, is not parsed: the three   *)
(* outputs are None and main() ends with 1.                                *)
(***************************************************************************)
\* where " head=" first occurs in the comment, 0 if nowhere
HeadKeyAt(c) ==
    LET at == {p \in 1..Len(c) : LitAt(c, p, HeadKey)}
    IN  IF at = {} THEN 0 ELSE CHOOSE p \in at : \A q \in at : p <= q

\* the head= value: the characters after the key up to a blank or the end
HeadValue(c) ==
    LET from == HeadKeyAt(c) + Len(HeadKey)
    IN  SubSeq(c, from, from + RunLen(c, from, {c[k] : k \in 1..Len(c)} \ {" ", "\n"}) - 1)

MalformedHead(c) ==
    /\ StartsWith(c, MergePrefix)
    /\ HeadKeyAt(c) > 0
    /\ \/ Len(HeadValue(c)) < ShaLen
       \/ Len(HeadValue(c)) > ShaLen
       \/ \E k \in 1..Len(HeadValue(c)) : HeadValue(c)[k] \notin HexChar

ParsedNothing(i) ==
    /\ loc[i].target_repo_default_branch = None
    /\ loc[i].approved_pr_head_sha = None
    /\ loc[i].additional_colbs = None

C8_MalformedHeadRejected ==
    \A i \in Invocations :
        Executed(i, "parse") /\ MalformedHead(loc[i].github_event.body) =>
            /\ ParsedNothing(i)
            /\ loc[i].exit_code = Some(1)

\* C8 for the values the code does reject: those that do not begin with 40
\* hexadecimal digits
C8_ShortHeadRejected ==
    \A i \in Invocations :
        /\ Executed(i, "parse")
        /\ StartsWith(loc[i].github_event.body, MergePrefix)
        /\ HeadKeyAt(loc[i].github_event.body) > 0
        /\ RunLen(HeadValue(loc[i].github_event.body), 1, HexChar) < ShaLen
        => ParsedNothing(i) /\ loc[i].exit_code = Some(1)

(***************************************************************************)
(* C9.  A missing token, an event that is empty or no "created" comment on *)
(* a review request, a comment that does not begin with "/merge" (the      *)
(* parser returns None three times, without raising) or is no valid        *)
(* command: main() ends with 1 before any call to the remote service and   *)
(* before a working directory exists.                                      *)
(***************************************************************************)
MalformedInput(i) ==
    \/ Executed(i, "token") /\ ~loc[i].github_token
    \/ /\ Executed(i, "event")
       /\ \/ loc[i].github_event.empty
          \/ loc[i].github_event.action # "created"
          \/ ~loc[i].github_event.pull_request
    \/ /\ Executed(i, "parse")
       /\ \/ ~StartsWith(loc[i].github_event.body, MergePrefix)
          \/ ParsedNothing(i)

C9_MalformedInputAborts ==
    \A i \in Invocations :
        /\ MalformedInput(i) =>
              /\ Done(i)
              /\ loc[i].exit_code = Some(1)
              /\ ~loc[i].fault
              /\ loc[i].calls = {}
              /\ ~Executed(i, "fetch_pr") /\ ~Executed(i, "mktmp")
              /\ ~loc[i].tmpdir
        /\ Executed(i, "parse") /\ ~StartsWith(loc[i].github_event.body, MergePrefix)
              => ParsedNothing(i)

\* a "created" comment on an issue that is no review request
C9_Witness ==
    \E i \in Invocations :
        /\ loc[i].github_token
        /\ loc[i].github_event.action = "created"
        /\ ~loc[i].github_event.pull_request
        /\ loc[i].github_event.body = Cmd(<< >>, ShaA, << >>)
        /\ loc[i].exit_code = Some(1)

\* a comment on a review request that is no command
C9_WitnessNoCommand ==
    \E i \in Invocations :
        /\ Executed(i, "parse")
        /\ ~StartsWith(loc[i].github_event.body, MergePrefix)
        /\ loc[i].exit_code = Some(1)

(***************************************************************************)
(* C10.  The branch of a parsed command follows from its qualifier: none   *)
(* gives "master"; "master" and "beta" are kept; any other q gives         *)
(* "branch/" followed by q.  So it is "master", "beta" or begins with      *)
(* "branch/".                                                              *)
(***************************************************************************)
\* the qualifier as written: the text between "/merge:" and the next blank
Qualifier(c) ==
    IF LitAt(c, Len(MergePrefix) + 1, << ":" >>)
    THEN LET from == Len(MergePrefix) + 2
         IN  Some(SubSeq(c, from,
                         from + RunLen(c, from, {c[k] : k \in 1..Len(c)} \ {" "}) - 1))
    ELSE None

C10_BranchFromQualifier ==
    \A i \in Invocations :
        IsSome(loc[i].target_repo_default_branch) =>
            LET q == Qualifier(loc[i].github_event.body)
                branch == Val(loc[i].target_repo_default_branch)
            IN  /\ ~IsSome(q) => branch = Master
                /\ IsSome(q) /\ Val(q) \in {Master, Beta} => branch = Val(q)
                /\ IsSome(q) /\ Val(q) \notin {Master, Beta} =>
                      branch = BranchPrefix \o Val(q)
                /\ \/ branch \in {Master, Beta}
                   \/ StartsWith(branch, BranchPrefix) /\ Len(branch) > Len(BranchPrefix)

C10_Witness ==
    \E i \in Invocations :
        /\ loc[i].target_repo_default_branch = Some(BranchPrefix \o Custom)
        /\ loc[i].github_event.body =
              Cmd(<< ":" >> \o Custom, ShaB, << " ", "@" >> \o Alice \o << " ", "@" >> \o Bob)
        /\ loc[i].additional_colbs = Some(<< Alice, Bob >>)

(***************************************************************************)
(* C11.  detect_appid returns (filename, identifier) only for a candidate  *)
(* of the directory whose declared identifier equals its base name; with   *)
(* one candidate that parses and declares another identifier it returns    *)
(* (None, None); with two candidates that parse, exactly one of them       *)
(* self-naming, it returns that one in whichever order they are scanned.   *)
(***************************************************************************)
\* the files of the clone that the three globs list
Candidates(i) == {k \in 1..Len(loc[i].files) : ExtRank(loc[i].files[k].name) > 0}

\* detect_appid returned (None, None) to main()
NoMatch(i) ==
    /\ ~loc[i].fault
    /\ loc[i].manifest_file = None /\ loc[i].appid = None
    /\ loc[i].exit_code = Some(1)

\* detect_appid returned file k of the listing and its identifier
Resolved(i, k) ==
    /\ ~loc[i].fault
    /\ loc[i].manifest_file = Some(loc[i].files[k].name)
    /\ loc[i].appid = get_id_from_flatpak_manifest(loc[i].files[k])
    /\ loc[i].pc = "repo_exists"

C11_WitnessNoMatch ==
    \E i \in Invocations :
        /\ Executed(i, "detect")
        /\ Len(loc[i].files) = 1
        /\ loc[i].files[1].parses
        /\ Truthy(get_id_from_flatpak_manifest(loc[i].files[1]))
        /\ ~SelfNaming(loc[i].files[1])
        /\ NoMatch(i)

(***************************************************************************)
(* C12.  add_all_collaborators grants no team but 'trusted-maintainers',   *)
(* 'KDE' and 'GNOME'; 'KDE' only to a repository whose name starts with    *)
(* 'org.kde.', 'GNOME' only to one whose name starts with 'org.gnome.' and *)
(* has exactly two dots; and when it succeeds 'trusted-maintainers' is     *)
(* granted, with 'KDE' or 'GNOME' for the names that qualify.              *)
(***************************************************************************)
KdeName(name) == StartsWith(name, KdePrefix)

GnomeName(name) ==
    /\ StartsWith(name, GnomePrefix)
    /\ Cardinality({k \in 1..Len(name) : name[k] = "."}) = 2

C12_TeamsByNamespace ==
    \A i \in Invocations :
        Executed(i, "grant") =>
            LET name == Val(loc[i].created_repo_obj)
                teams == org_repos[name].teams
            IN  /\ teams \subseteq {"trusted-maintainers", "KDE", "GNOME"}
                /\ "KDE" \in teams => KdeName(name)
                /\ "GNOME" \in teams => GnomeName(name)
                /\ loc[i].pc = "verify_open" =>
                      /\ "trusted-maintainers" \in teams
                      /\ KdeName(name) => "KDE" \in teams
                      /\ GnomeName(name) => "GNOME" \in teams

\* org.gnome.F.B: the grant succeeded and GNOME was not granted
C12_Witness ==
    \E i \in Invocations :
        /\ Executed(i, "grant") /\ loc[i].pc = "verify_open"
        /\ loc[i].created_repo_obj = Some(GnomeFooBar)
        /\ org_repos[GnomeFooBar].teams = {"trusted-maintainers"}

\* org.gnome.F: the grant succeeded and GNOME was granted
C12_WitnessGnome ==
    \E i \in Invocations :
        /\ Executed(i, "grant") /\ loc[i].pc = "verify_open"
        /\ loc[i].created_repo_obj = Some(GnomeFoo)
        /\ org_repos[GnomeFoo].teams = {"trusted-maintainers", "GNOME"}

(***************************************************************************)
(* C13.  The temporary directory an invocation entered is removed when the *)
(* invocation has ended, whichever way it ended: return 0, a return 1 of   *)
(* any step inside the with statement, or an exception raised inside it;   *)
(* and it is there for as long as the invocation is inside the statement.  *)
(***************************************************************************)
\* the step the invocation ended in
LastStep(i) == loc[i].steps[Len(loc[i].steps)]

C13_TmpDirReleased ==
    \A i \in Invocations :
        /\ Done(i) => ~loc[i].tmpdir
        /\ ~Done(i) /\ Executed(i, "mktmp") => loc[i].tmpdir
        /\ loc[i].tmpdir => Executed(i, "mktmp")

\* an exception raised by a protection call, the directory removed
C13_Witness ==
    \E i \in Invocations :
        /\ Done(i) /\ loc[i].fault
        /\ Executed(i, "mktmp") /\ LastStep(i) = "protect"
        /\ ~loc[i].tmpdir

\* add_all_collaborators returned False, the directory removed
C13_WitnessReturn ==
    \E i \in Invocations :
        /\ Done(i) /\ ~loc[i].fault /\ loc[i].exit_code = Some(1)
        /\ LastStep(i) = "grant" /\ ~loc[i].tmpdir

C13_WitnessSuccess ==
    \E i \in Invocations :
        /\ Done(i) /\ loc[i].exit_code = Some(0)
        /\ Executed(i, "mktmp") /\ ~loc[i].tmpdir

(***************************************************************************)
(* C14.  Once the protection loop of finalize_new_flathub_repo has run,    *)
(* set_protected_branch has been called for each of the six patterns,      *)
(* whether or not a call failed, and the invocation goes on to fetch the   *)
(* destination branch and verify it.                                       *)
(***************************************************************************)
C14_ProtectionIndependent ==
    \A i \in Invocations :
        Executed(i, "protect") =>
            /\ loc[i].protect_calls = Len(ProtectedPatterns)
            /\ loc[i].pc = "verify_remote" \/ Executed(i, "verify_remote")

\* what the loop does: the calls stop at the first one that fails, and the
\* invocation ends there with an exception; the patterns protected are the
\* ones before it
C14_FirstFailureEndsLoop ==
    \A i \in Invocations :
        Executed(i, "protect") =>
            \/ /\ loc[i].protect_calls = Len(ProtectedPatterns)
               /\ loc[i].pc = "verify_remote" \/ Executed(i, "verify_remote")
            \/ /\ Done(i) /\ loc[i].fault /\ LastStep(i) = "protect"
               /\ loc[i].protect_calls \in 1..Len(ProtectedPatterns)
               /\ ext_count > 0 \/
                      org_repos[Val(loc[i].created_repo_obj)].rules =
                          {ProtectedPatterns[j] : j \in 1..(loc[i].protect_calls - 1)}

(***************************************************************************)
(* C15.  An error while fetching the discussion thread ends close_pr with  *)
(* a failure, as an error of any other call of the step does; so close_pr  *)
(* returns True, and main() returns 0, only with the thread locked (no     *)
(* external actor having touched the request).                             *)
(***************************************************************************)
\* close_pr returned True to main()
ClosureReportedSuccess(i) == loc[i].pc = "verify_closed" \/ Executed(i, "verify_closed")

\* get_issue raised in get_issue_from_pr
ThreadFetchFailed(i) == Executed(i, "get_issue") /\ loc[i].issue_obj = None

C15_ClosureErrorsAbort ==
    \A i \in Invocations :
        /\ ThreadFetchFailed(i) => ~ClosureReportedSuccess(i)
        /\ ClosureReportedSuccess(i) /\ ext_count = 0 => pr.locked
        /\ loc[i].exit_code = Some(0) /\ ext_count = 0 => pr.locked

\* what close_pr does: an error of set_labels, create_issue_comment, edit
\* or lock returns False, an error of get_issue does not; it returns True
\* with the thread locked, or with the fetch of the thread failed
C15_SuccessUnlessFetchFailed ==
    \A i \in Invocations :
        ClosureReportedSuccess(i) /\ ext_count = 0 =>
            \/ ~ThreadFetchFailed(i) /\ pr.locked
            \/ ThreadFetchFailed(i) /\ "lock" \notin loc[i].calls

(***************************************************************************)
(* C16.  create_new_flathub_repo returns no repository when a remote call  *)
(* of it fails: after an existence check that ended in an error other than *)
(* "not found" no create call is made and no repository is returned, and   *)
(* an error of create_repo or of repo.edit returns None.                   *)
(***************************************************************************)
\* create_repo or repo.edit raised: the invocation ended in that step
CreateOrEditFailed(i) ==
    /\ Done(i) /\ loc[i].failed
    /\ LastStep(i) \in {"create_repo", "edit_repo"}

C16_ProvisionErrorsAbort ==
    \A i \in Invocations :
        /\ loc[i].get_repo_error =>
              /\ "create_repo" \notin loc[i].calls
              /\ loc[i].created_repo_obj = None
        /\ CreateOrEditFailed(i) =>
              loc[i].created_repo_obj = None /\ loc[i].exit_code = Some(1)

\* what the function does for the two calls after the check
C16_CreateEditErrorsAbort ==
    \A i \in Invocations :
        CreateOrEditFailed(i) =>
            loc[i].created_repo_obj = None /\ loc[i].exit_code = Some(1)

(***************************************************************************)
(* C17.  close_pr begins only from the check after the access grant, and   *)
(* only when the request fetched there is open; main() returns 0 only from *)
(* the check after close_pr, and only when the request fetched there is    *)
(* closed; a request that is not open at the first check, or not closed at *)
(* the second, ends the invocation with exit code 1.  External actors      *)
(* change the request at any moment.                                       *)
(***************************************************************************)
\* invocation i takes the step it is at, named step
Takes(i, step) == loc[i].pc = step /\ loc'[i] # loc[i]

C17_Bookends(i) ==
    /\ loc[i].pc # "set_labels" /\ loc'[i].pc = "set_labels" =>
          Takes(i, "verify_open") /\ pr.state = "open" /\ Executed(i, "grant")
    /\ loc[i].exit_code # Some(0) /\ loc'[i].exit_code = Some(0) =>
          Takes(i, "verify_closed") /\ pr.state = "closed" /\ Executed(i, "lock")
    /\ Takes(i, "verify_open") /\ pr.state # "open" =>
          loc'[i].pc = "done" /\ loc'[i].exit_code = Some(1)
    /\ Takes(i, "verify_closed") /\ pr.state # "closed" =>
          loc'[i].pc = "done" /\ loc'[i].exit_code = Some(1)

C17_StateChecksBookendClosure == [][\A i \in Invocations : C17_Bookends(i)]_vars

\* the request was closed by this invocation and reopened by someone else
\* before the second check: exit code 1
C17_Witness ==
    \E i \in Invocations :
        /\ Done(i) /\ ~loc[i].fault /\ loc[i].exit_code = Some(1)
        /\ LastStep(i) = "verify_closed"
        /\ "edit_state_closed" \in loc[i].calls
        /\ pr.state = "open" /\ ext_count > 0

\* the request was closed by someone else before the first check
C17_WitnessClosedBefore ==
    \E i \in Invocations :
        /\ Done(i) /\ ~loc[i].fault /\ loc[i].exit_code = Some(1)
        /\ LastStep(i) = "verify_open"
        /\ pr.state = "closed" /\ ext_count > 0
        /\ loc[i].calls \cap ClosureCalls = {}

(***************************************************************************)
(* C18.  close_pr labels, comments, closes and locks in this order: the    *)
(* close call is made only with the label and the comment applied, the     *)
(* lock call only after the close call succeeded and only for a thread     *)
(* fetched unlocked; an error of a call ends the step with the effects of  *)
(* the calls before it in place and none of the calls after it made.       *)
(***************************************************************************)
Labeled == "ready" \in pr.labels

Commented == pr.comments > 0

\* close_pr returned False from the call of the step named
ClosureFailedAt(i, step) ==
    Done(i) /\ ~loc[i].fault /\ loc[i].exit_code = Some(1) /\ LastStep(i) = step

C18_ClosureOrder ==
    \A i \in Invocations :
        LET calls == loc[i].calls
        IN  /\ "create_issue_comment" \in calls => Labeled
            /\ "edit_state_closed" \in calls => Labeled /\ Commented
            /\ "lock" \in calls =>
                  /\ Labeled /\ Commented
                  /\ Executed(i, "get_issue")
                  /\ loc[i].issue_obj = Some(FALSE)
                  /\ ext_count = 0 => pr.state = "closed"
            /\ ClosureFailedAt(i, "set_labels") =>
                  /\ ~Labeled /\ ~Commented
                  /\ calls \cap {"create_issue_comment", "edit_state_closed", "lock"} = {}
            /\ ClosureFailedAt(i, "comment") =>
                  /\ Labeled /\ ~Commented
                  /\ calls \cap {"edit_state_closed", "lock"} = {}
                  /\ ext_count = 0 => pr.state = "open"
            /\ ClosureFailedAt(i, "edit_closed") =>
                  /\ Labeled /\ Commented
                  /\ "lock" \notin calls
                  /\ ext_count = 0 => pr.state = "open"
            /\ ClosureFailedAt(i, "lock") =>
                  /\ Labeled /\ Commented
                  /\ ext_count = 0 => pr.state = "closed" /\ ~pr.locked

\* the close call failed: labeled, commented, still open, no lock call
C18_Witness ==
    \E i \in Invocations :
        /\ ClosureFailedAt(i, "edit_closed")
        /\ Labeled /\ Commented /\ pr.state = "open"
        /\ "lock" \notin loc[i].calls

\* the thread was fetched locked: no lock call, and the step succeeded
C18_WitnessAlreadyLocked ==
    \E i \in Invocations :
        /\ loc[i].exit_code = Some(0)
        /\ loc[i].issue_obj = Some(TRUE)
        /\ "lock" \notin loc[i].calls
        /\ Labeled /\ Commented /\ pr.state = "closed"

(***************************************************************************)
(* C19.  Whenever an invocation attempts the push, the head of its clone   *)
(* is the approved SHA of the command, and a push that succeeds leaves the *)
(* destination branch at the approved SHA, whatever external actors did to *)
(* the fork and to the review request after the clone was taken.           *)
(***************************************************************************)
PushAttempted(i) == "git_push" \in loc[i].calls

C19_ClonePushed(i) ==
    Takes(i, "push") /\ loc'[i].pc = "remove_bot" =>
        << Val(loc[i].target_repo_default_branch), Val(loc[i].approved_pr_head_sha) >>
            \in org_repos'[Val(loc[i].created_repo_obj)].heads

C19_OnlyApprovedPushed ==
    /\ [](\A i \in Invocations :
             loc[i].pc = "push" \/ PushAttempted(i) =>
                 /\ IsSome(loc[i].approved_pr_head_sha)
                 /\ loc[i].clone_head_sha = loc[i].approved_pr_head_sha)
    /\ [][\A i \in Invocations : C19_ClonePushed(i)]_vars

\* the fork moved to another commit after the clone; the approved one was pushed
C19_Witness ==
    \E i \in Invocations :
        /\ PushAttempted(i) /\ loc[i].pc = "remove_bot"
        /\ fork_head # Val(loc[i].approved_pr_head_sha)
        /\ << Val(loc[i].target_repo_default_branch), Val(loc[i].approved_pr_head_sha) >>
              \in org_repos[Val(loc[i].created_repo_obj)].heads

\* the review request moved to another commit after the checks of the clone
C19_WitnessRequestUpdated ==
    \E i \in Invocations :
        /\ PushAttempted(i) /\ loc[i].pc = "remove_bot"
        /\ pr.head_sha # Val(loc[i].approved_pr_head_sha)

(***************************************************************************)
(* C20.  An invocation that reaches the provisioning with the repository   *)
(* of its identifier already there (made before it started, or by someone  *)
(* else) gets no repository: it stays in create_new_flathub_repo or has    *)
(* ended with exit code 1, and has not pushed, protected, granted, nor     *)
(* labeled, commented, closed or locked the review request.                *)
(***************************************************************************)
\* the repository of i's identifier is there and i did not make it
FoundDestinationPresent(i) ==
    /\ Executed(i, "repo_exists")
    /\ org_repos[Val(loc[i].appid)].exists
    /\ ~Created(i)

C20_ExistingDestinationFails ==
    \A i \in Invocations :
        FoundDestinationPresent(i) =>
            /\ loc[i].pc \in {"create_repo", "done"}
            /\ Done(i) => loc[i].exit_code = Some(1)
            /\ loc[i].created_repo_obj = None
            /\ loc[i].calls \cap (PublishCalls \cup GrantCalls \cup ClosureCalls) = {}
            /\ ~Executed(i, "push")
            /\ ext_count = 0 => ~Labeled /\ ~Commented /\ pr.state = "open"

\* the repository was there before the invocation started; the check found it
C20_Witness ==
    \E i \in Invocations :
        /\ FoundDestinationPresent(i) /\ Done(i)
        /\ loc[i].found_existing /\ LastStep(i) = "repo_exists"
        /\ loc[i].exit_code = Some(1) /\ ext_count = 0

\* the check ended in an error, and the service refused the create call
C20_WitnessCheckFailed ==
    \E i \in Invocations :
        /\ FoundDestinationPresent(i) /\ Done(i)
        /\ loc[i].get_repo_error /\ LastStep(i) = "create_repo"
        /\ loc[i].exit_code = Some(1) /\ ext_count = 0

(***************************************************************************)
(* Two invocations for one review request and one identifier, run at the   *)
(* same time: each has parsed its command, been authorized, cloned the     *)
(* fork at the approved commit and resolved the identifier, and their      *)
(* remaining steps interleave in any order.                                *)
(***************************************************************************)
\* the two commands of Comments that parse
WellFormedComments ==
    {c \in Comments : parse_merge_command(c)[2] = Some(ShaA)}

\* the local variables of main() at the call of create_new_flathub_repo
AtProvisioning(body, name, request) ==
    LET parsed == parse_merge_command(body)
        manifest == File(name \o ExtYml, Some(name))
    IN  [InitLocals EXCEPT
            !.pc = "repo_exists",
            !.github_token = TRUE,
            !.github_event = [empty |-> FALSE, action |-> "created",
                              pull_request |-> TRUE, body |-> body],
            !.target_repo_default_branch = parsed[1],
            !.approved_pr_head_sha = parsed[2],
            !.additional_colbs = Some(Append(Val(parsed[3]), PrAuthor)),
            !.pr = Some(request),
            !.admin = TRUE,
            !.tmpdir = TRUE,
            !.clone_head_sha = Some(ShaA),
            !.pr_tmp = Some(request),
            !.files = << manifest >>,
            !.manifest_file = Some(manifest.name),
            !.appid = Some(name),
            !.steps = SubSeq(Workflow, 1, 9),
            !.calls = {"get_organization", "get_repo", "get_user", "get_pull",
                       "get_team_by_slug", "has_in_members", "clone_repository"}]

RaceInit ==
    /\ \E name \in AppIds, locked \in BOOLEAN :
          /\ pr = [state |-> "open", head_sha |-> ShaA, labels |-> {},
                   comments |-> 0, locked |-> locked]
          /\ \E bodies \in [{1, 2} -> WellFormedComments] :
                loc = [i \in {1, 2} |-> AtProvisioning(bodies[i], name, pr)]
    /\ fork_head = ShaA
    /\ \E pre \in SUBSET AppIds :
          /\ Cardinality(pre) <= MaxPreexisting
          /\ org_repos = [n \in AppIds |-> IF n \in pre THEN NewRepo ELSE AbsentRepo]
    /\ ext_count = 0

\* the steps of main() from create_new_flathub_repo on
Promote(i) ==
    \/ RepoExists(i)
    \/ CreateRepo(i)
    \/ EditRepo(i)
    \/ Push(i)
    \/ RemoveBot(i)
    \/ ProtectBranches(i)
    \/ VerifyRemote(i)
    \/ AddAllCollaborators(i)
    \/ VerifyOpen(i)
    \/ SetLabels(i)
    \/ CreateIssueComment(i)
    \/ EditClosed(i)
    \/ GetIssue(i)
    \/ LockIssue(i)
    \/ VerifyClosed(i)

RaceNext == \E i \in Invocations : Promote(i)

RaceSpec == RaceInit /\ [][RaceNext]_vars

(***************************************************************************)
(* C21.  Of two invocations for the same review request and identifier     *)
(* that run at the same time, at most one gets a repository from           *)
(* create_new_flathub_repo, and so at most one pushes, at most one grants  *)
(* access, at most one labels, comments, closes or locks the review        *)
(* request, and at most one returns 0.                                     *)
(***************************************************************************)
AtMostOne(S) == Cardinality(S) <= 1

C21_AtMostOnePromotes ==
    /\ AtMostOne({i \in Invocations : Created(i)})
    /\ AtMostOne({i \in Invocations : IsSome(loc[i].created_repo_obj)})
    /\ AtMostOne({i \in Invocations : loc[i].calls \cap PublishCalls # {}})
    /\ AtMostOne({i \in Invocations : loc[i].calls \cap GrantCalls # {}})
    /\ AtMostOne({i \in Invocations : loc[i].calls \cap ClosureCalls # {}})
    /\ AtMostOne({i \in Invocations : loc[i].exit_code = Some(0)})

\* both found no repository and both called create_repo; one was refused
\* and ended with 1, the other went on to return 0
C21_Witness ==
    \E i, j \in Invocations :
        /\ i # j
        /\ ~loc[i].found_existing /\ ~loc[j].found_existing
        /\ ~loc[i].get_repo_error /\ ~loc[j].get_repo_error
        /\ "create_repo" \in loc[i].calls /\ "create_repo" \in loc[j].calls
        /\ loc[i].exit_code = Some(0)
        /\ Done(j) /\ loc[j].exit_code = Some(1) /\ LastStep(j) = "create_repo"
        /\ loc[j].created_repo_obj = None

=============================================================================
